---- MODULE Spec2Model ----
(***************************************************************************)
(* A model of the recursive-descent JSON parser of src/src/main.rs.        *)
(*                                                                         *)
(* The source text is the sequence of the bytes of the String: an ASCII    *)
(* byte is the one-character string, any other byte is "x" and its two     *)
(* hexadecimal digits ("xE2").                                             *)
(* The cursor is the 0-based byte offset of the code, so the byte under    *)
(* the cursor is source[cursor + 1].  Recursion (parse -> parse_object /   *)
(* parse_array -> parse) is an explicit stack of frames, the head being    *)
(* the routine that runs.  A panic ends the run with status "failed".      *)
(***************************************************************************)
EXTENDS Integers, Sequences, FiniteSets, TLC

VARIABLES
    source,   \* JsonParser.source
    cursor,   \* JsonParser.cursor
    stack,    \* the call stack: frames of parse / parse_object / parse_array ...
    ret,      \* the value the routine that returned last handed to its caller
    status,   \* "running", "done" (the top-level parse returned), "failed" (panic)
    err,      \* the panic: its message and, for "Unexpected token", the byte
    document  \* what the caller wrote the source from; the parser never reads it

vars == <<source, cursor, stack, ret, status, err, document>>

----------------------------------------------------------------------------
(* Bytes *)

\* The value current() and peek() yield past the end: unwrap_or(&0).
NUL == "NUL"

Digits == <<"0", "1", "2", "3", "4", "5", "6", "7", "8", "9">>

\* u8::is_ascii_digit
is_ascii_digit(c) == \E i \in 1..10 : Digits[i] = c

\* (self.current() - b'0') for an ASCII digit
DigitValue(c) == (CHOOSE i \in 1..10 : Digits[i] = c) - 1

----------------------------------------------------------------------------
(* f32 arithmetic on the values parse_number produces: non-negative        *)
(* m * 2^e with m < 2^24 (e > 0 only when m >= 2^23), or infinity.         *)
(* Every operation rounds to nearest, ties to even, as IEEE 754 does.      *)

TwoTo23 == 8388608
TwoTo24 == 16777216
\* the largest finite f32 is (2^24 - 1) * 2^104
F32MaxExp == 104

RECURSIVE Pow2(_)
Pow2(n) == IF n = 0 THEN 1 ELSE 2 * Pow2(n - 1)

RECURSIVE ShiftFor(_, _)
\* the least s >= k with x < 2^(24 + s)
ShiftFor(x, k) == IF x < TwoTo24 * Pow2(k) THEN k ELSE ShiftFor(x, k + 1)

F32Inf == [m |-> 0, e |-> 0, inf |-> TRUE]
F32Zero == [m |-> 0, e |-> 0, inf |-> FALSE]

\* the f32 nearest to the integer x * 2^e0 (0 <= x < 2^31)
F32Round(x, e0) ==
    LET s == ShiftFor(x, 0)
        q == x \div Pow2(s)
        r == x % Pow2(s)
        half == IF s = 0 THEN 0 ELSE Pow2(s - 1)
        up == s > 0 /\ (r > half \/ (r = half /\ q % 2 = 1))
        m1 == IF up THEN q + 1 ELSE q
        m == IF m1 = TwoTo24 THEN TwoTo23 ELSE m1
        e == IF m1 = TwoTo24 THEN e0 + s + 1 ELSE e0 + s
    IN  IF e > F32MaxExp THEN F32Inf ELSE [m |-> m, e |-> e, inf |-> FALSE]

\* number *= 10.0
F32MulTen(f) == IF f.inf THEN F32Inf ELSE F32Round(10 * f.m, f.e)

\* number += d as f32, for a digit d in 0..9
F32AddDigit(f, d) ==
    IF f.inf THEN F32Inf
    ELSE IF f.e > 4 THEN f      \* d is below half a unit in the last place
    ELSE F32Round(f.m * Pow2(f.e) + d, 0)

----------------------------------------------------------------------------
(* enum JsonObject *)

Null == [type |-> "Null"]
Boolean(b) == [type |-> "Boolean", b |-> b]
String(s) == [type |-> "String", s |-> s]
\* Number(f32): the sign bit and the magnitude
Number(neg, f) == [type |-> "Number", neg |-> neg, f |-> f]
Array(children) == [type |-> "Array", items |-> children]
Object(children) == [type |-> "Object", entries |-> children]

\* no value: nothing has returned yet
NoValue == [type |-> "None"]

\* HashMap::new()
EmptyMap == <<>>

----------------------------------------------------------------------------
(* Cursor primitives.  Each takes the source and the cursor and yields the *)
(* new cursor (and what the code returns).                                 *)

is_eof(src, cur) == cur >= Len(src)

current(src, cur) == IF cur < Len(src) THEN src[cur + 1] ELSE NUL

peek(src, cur) == IF cur + 1 < Len(src) THEN src[cur + 2] ELSE NUL

\* the bytes 0x80..0xBF, which continue a multi-byte UTF-8 character
ContinuationBytes ==
    {"x80", "x81", "x82", "x83", "x84", "x85", "x86", "x87",
     "x88", "x89", "x8A", "x8B", "x8C", "x8D", "x8E", "x8F",
     "x90", "x91", "x92", "x93", "x94", "x95", "x96", "x97",
     "x98", "x99", "x9A", "x9B", "x9C", "x9D", "x9E", "x9F",
     "xA0", "xA1", "xA2", "xA3", "xA4", "xA5", "xA6", "xA7",
     "xA8", "xA9", "xAA", "xAB", "xAC", "xAD", "xAE", "xAF",
     "xB0", "xB1", "xB2", "xB3", "xB4", "xB5", "xB6", "xB7",
     "xB8", "xB9", "xBA", "xBB", "xBC", "xBD", "xBE", "xBF"}

\* str::is_char_boundary: the offset is 0, the length, or that of a byte
\* that starts a character
is_char_boundary(src, index) ==
    \/ index = 0
    \/ index = Len(src)
    \/ index < Len(src) /\ src[index + 1] \notin ContinuationBytes

\* A routine that can panic yields ok = FALSE, the message and the cursor
\* at the panic.
Panic(msg, cur) == [ok |-> FALSE, msg |-> msg, byte |-> "", cursor |-> cur]

\* the panic of slicing a str at an offset inside a character
NotCharBoundary == "byte index is not a char boundary"

\* try_consume can panic: &self.source[cursor..cursor + len] needs both
\* offsets on character boundaries.  panic tells that from a mismatch.
try_consume(src, cur, it) ==
    IF cur + Len(it) > Len(src)
    THEN [ok |-> FALSE, panic |-> FALSE, cursor |-> cur]
    ELSE IF ~is_char_boundary(src, cur) \/ ~is_char_boundary(src, cur + Len(it))
    THEN Panic(NotCharBoundary, cur) @@ [panic |-> TRUE]
    ELSE LET same == SubSeq(src, cur + 1, cur + Len(it)) = it
         IN  [ok |-> same, panic |-> FALSE,
              cursor |-> IF same THEN cur + Len(it) ELSE cur]

\* try_consume_ch with the bug of advancing whether the byte matches or not
try_consume_ch_Always(src, cur, ch) ==
    [ok |-> ch = current(src, cur), cursor |-> cur + 1]

try_consume_ch(src, cur, ch) ==
    LET same == ch = current(src, cur)
    IN  [ok |-> same, cursor |-> IF same THEN cur + 1 ELSE cur]

IsSpace(c) == c = " " \/ c = "\t" \/ c = "\n"

RECURSIVE trim_left(_, _)
trim_left(src, cur) ==
    IF ~is_eof(src, cur) /\ IsSpace(current(src, cur))
    THEN trim_left(src, cur + 1)
    ELSE cur

RECURSIVE ScanString(_, _)
\* the loop of lex_string: up to the next quote or the end
ScanString(src, cur) ==
    IF ~is_eof(src, cur) /\ current(src, cur) # "\""
    THEN ScanString(src, cur + 1)
    ELSE cur

\* panic!("Unexpected token '{current}', ...")
PanicToken(c, cur) == [ok |-> FALSE, msg |-> "Unexpected token", byte |-> c, cursor |-> cur]

lex_string(src, cur) ==
    LET open == try_consume_ch(src, cur, "\"")
        start == open.cursor
        close == try_consume_ch(src, ScanString(src, start), "\"")
    IN  IF ~open.ok
        THEN Panic("Expected opening quote whilst parsing string", open.cursor)
        ELSE IF ~close.ok
        THEN Panic("Expected close quote whilst parsing string", close.cursor)
        ELSE [ok |-> TRUE, cursor |-> close.cursor,
              str |-> SubSeq(src, start + 1, close.cursor - 1)]

parse_string(src, cur) ==
    LET lexed == lex_string(src, cur)
    IN  IF lexed.ok
        THEN [ok |-> TRUE, cursor |-> lexed.cursor, value |-> String(lexed.str)]
        ELSE lexed

parse_boolean(src, cur) ==
    LET t == try_consume(src, cur, <<"t", "r", "u", "e">>)
        f == try_consume(src, t.cursor, <<"f", "a", "l", "s", "e">>)
    IN  IF t.panic THEN Panic(t.msg, t.cursor)
        ELSE IF t.ok THEN [ok |-> TRUE, cursor |-> t.cursor, value |-> Boolean(TRUE)]
        ELSE IF f.panic THEN Panic(f.msg, f.cursor)
        ELSE IF f.ok THEN [ok |-> TRUE, cursor |-> f.cursor, value |-> Boolean(FALSE)]
        ELSE Panic("Unexpected end of input whilst parsing boolean", f.cursor)

RECURSIVE AccumulateDigits(_, _, _)
\* the loop of parse_number
AccumulateDigits(src, cur, number) ==
    IF ~is_eof(src, cur) /\ is_ascii_digit(current(src, cur))
    THEN AccumulateDigits(src, cur + 1,
             F32AddDigit(F32MulTen(number), DigitValue(current(src, cur))))
    ELSE [cursor |-> cur, number |-> number]

\* parse_number with the bug of a "+" setting is_negative as a "-" does
parse_number_PlusNegates(src, cur) ==
    LET minus == try_consume_ch(src, cur, "-")
        plus == IF minus.ok THEN minus ELSE try_consume_ch(src, minus.cursor, "+")
        is_negative == plus.ok
        acc == AccumulateDigits(src, plus.cursor, F32Zero)
    IN  [ok |-> TRUE, cursor |-> acc.cursor, value |-> Number(is_negative, acc.number)]

parse_number(src, cur) ==
    LET minus == try_consume_ch(src, cur, "-")
        plus == IF minus.ok THEN minus ELSE try_consume_ch(src, minus.cursor, "+")
        is_negative == minus.ok
        acc == AccumulateDigits(src, plus.cursor, F32Zero)
    IN  [ok |-> TRUE, cursor |-> acc.cursor, value |-> Number(is_negative, acc.number)]

\* the result of try_consume is dropped, its panic is not
parse_null(src, cur) ==
    LET n == try_consume(src, cur, <<"n", "u", "l", "l">>)
    IN  IF n.panic THEN Panic(n.msg, n.cursor)
        ELSE [ok |-> TRUE, cursor |-> n.cursor, value |-> Null]

\* the match of parse: the routine the byte under the cursor selects
Dispatch(c) ==
    IF c = "{" THEN "parse_object"
    ELSE IF c = "[" THEN "parse_array"
    ELSE IF c = "\"" THEN "parse_string"
    ELSE IF c = "t" \/ c = "f" THEN "parse_boolean"
    ELSE IF c = "n" THEN "parse_null"
    ELSE IF c = "-" \/ c = "+" \/ is_ascii_digit(c) THEN "parse_number"
    ELSE "panic"

\* parse, up to the call of the routine it dispatches to
parse(src, cur) ==
    IF is_eof(src, cur)
    THEN Panic("Unexpected end of JSON input", cur)
    ELSE LET at == trim_left(src, cur)
             c == current(src, at)
         IN  IF Dispatch(c) = "panic"
             THEN PanicToken(c, at)
             ELSE [ok |-> TRUE, cursor |-> at, routine |-> Dispatch(c)]

\* Insert with the bug of keeping the value a key already has
Insert_KeepsFirst(children, key, value) ==
    [k \in (DOMAIN children) \cup {key} |->
        IF k \in DOMAIN children THEN children[k] ELSE value]

\* HashMap::insert: a later insert of the same key replaces the value
Insert(children, key, value) ==
    [k \in (DOMAIN children) \cup {key} |-> IF k = key THEN value ELSE children[k]]

\* the condition of the while loop of parse_object
ObjectLoopCondition(src, cur) == ~is_eof(src, cur) /\ current(src, cur) # "}"

\* parse_object's loop body up to the recursive parse: the key and the colon
ObjectKey(src, cur) ==
    LET lexed == lex_string(src, trim_left(src, cur))
        colon == try_consume_ch(src, lexed.cursor, ":")
    IN  IF ~lexed.ok THEN lexed
        ELSE IF ~colon.ok
        THEN Panic("Expected colon after key whilst parsing object", colon.cursor)
        ELSE [ok |-> TRUE, cursor |-> colon.cursor, key |-> lexed.str]

\* ArrayNext with the bug of taking a comma that the ] follows as the end
ArrayNext_CommaThenClose(src, cur) ==
    IF current(src, cur) = "]"
    THEN [ok |-> TRUE, cursor |-> cur, next |-> "array_close"]
    ELSE IF current(src, cur) = ","
    THEN [ok |-> TRUE, cursor |-> cur + 1,
          next |-> IF peek(src, cur) = "]" THEN "array_close" ELSE "array_loop"]
    ELSE Panic("Unexpected end of input whilst parsing children in array", cur)

\* ArrayNext with the bug of continuing without consuming the comma
ArrayNext_CommaNotConsumed(src, cur) ==
    IF current(src, cur) = "]"
    THEN [ok |-> TRUE, cursor |-> cur, next |-> "array_close"]
    ELSE IF current(src, cur) = "," /\ peek(src, cur) # "]"
    THEN [ok |-> TRUE, cursor |-> cur, next |-> "array_loop"]
    ELSE Panic("Unexpected end of input whilst parsing children in array", cur)

\* parse_array after an element: "break", "continue" (the comma consumed) or panic
ArrayNext(src, cur) ==
    IF current(src, cur) = "]"
    THEN [ok |-> TRUE, cursor |-> cur, next |-> "array_close"]
    ELSE IF current(src, cur) = "," /\ peek(src, cur) # "]"
    THEN [ok |-> TRUE, cursor |-> cur + 1, next |-> "array_loop"]
    ELSE Panic("Unexpected end of input whilst parsing children in array", cur)

----------------------------------------------------------------------------
(* The call stack *)

\* a frame: the routine (and the place in it) and its locals
Frame(pc) == [pc |-> pc, items |-> <<>>, entries |-> EmptyMap, key |-> <<>>]

Top == Head(stack)

Running(pc) == status = "running" /\ Top.pc = pc

NoError == [msg |-> "", byte |-> ""]

\* the running routine goes on at pc with its locals updated
Goto(frame, cur) ==
    /\ stack' = <<frame>> \o Tail(stack)
    /\ cursor' = cur
    /\ UNCHANGED <<source, ret, status, err, document>>

\* the running routine calls parse and goes on at frame.pc when it returns
Call(frame, cur) ==
    /\ stack' = <<Frame("parse"), frame>> \o Tail(stack)
    /\ cursor' = cur
    /\ UNCHANGED <<source, ret, status, err, document>>

\* the running routine returns value; the top-level parse returning ends the run
Return(value, cur) ==
    /\ stack' = Tail(stack)
    /\ ret' = value
    /\ cursor' = cur
    /\ status' = IF Len(stack) = 1 THEN "done" ELSE "running"
    /\ UNCHANGED <<source, err, document>>

\* panic!: the whole parse is aborted
Fail(p) ==
    /\ status' = "failed"
    /\ err' = [msg |-> p.msg, byte |-> p.byte]
    /\ cursor' = p.cursor
    /\ UNCHANGED <<source, stack, ret, document>>

\* a routine without recursion runs in one step: it returns or panics
Leaf(r) == IF r.ok THEN Return(r.value, r.cursor) ELSE Fail(r)

----------------------------------------------------------------------------
(* The routines, one action per stretch of code between two calls of parse *)

Parse ==
    /\ Running("parse")
    /\ LET r == parse(source, cursor)
       IN  IF r.ok THEN Goto(Frame(r.routine), r.cursor) ELSE Fail(r)

ParseString ==
    /\ Running("parse_string")
    /\ Leaf(parse_string(source, cursor))

ParseBoolean ==
    /\ Running("parse_boolean")
    /\ Leaf(parse_boolean(source, cursor))

ParseNumber ==
    /\ Running("parse_number")
    /\ Leaf(parse_number(source, cursor))

ParseNull ==
    /\ Running("parse_null")
    /\ Leaf(parse_null(source, cursor))

\* parse_object: the opening bracket and the empty map
ParseObject ==
    /\ Running("parse_object")
    /\ LET open == try_consume_ch(source, cursor, "{")
       IN  IF open.ok
           THEN Goto(Frame("object_loop"), open.cursor)
           ELSE Fail(Panic("Expected open bracket whilst parsing object", open.cursor))

\* the head of the while loop, and its body up to the call of parse
ObjectLoop ==
    /\ Running("object_loop")
    /\ IF ObjectLoopCondition(source, cursor)
       THEN LET k == ObjectKey(source, cursor)
            IN  IF k.ok
                THEN Call([Top EXCEPT !.pc = "object_insert", !.key = k.key], k.cursor)
                ELSE Fail(k)
       ELSE Goto([Top EXCEPT !.pc = "object_close"], cursor)

\* the rest of the body: the insert, and the comma that continues the loop
ObjectInsert ==
    /\ Running("object_insert")
    /\ LET children == Insert(Top.entries, Top.key, ret)
           comma == try_consume_ch(source, cursor, ",")
       IN  Goto([Top EXCEPT !.entries = children,
                            !.pc = IF comma.ok THEN "object_loop" ELSE "object_close"],
                comma.cursor)

\* after the loop: the closing bracket
ObjectClose ==
    /\ Running("object_close")
    /\ LET close == try_consume_ch(source, cursor, "}")
       IN  IF close.ok
           THEN Return(Object(Top.entries), close.cursor)
           ELSE Fail(Panic("Expected close bracket whilst parsing object", close.cursor))

\* parse_array: the opening bracket and the empty vector
ParseArray ==
    /\ Running("parse_array")
    /\ LET open == try_consume_ch(source, cursor, "[")
       IN  IF open.ok
           THEN Goto(Frame("array_loop"), open.cursor)
           ELSE Fail(Panic("Expected open square bracket whilst parsing array",
                           open.cursor))

\* the head of the while loop and the call of parse
ArrayLoop ==
    /\ Running("array_loop")
    /\ IF ~is_eof(source, cursor)
       THEN Call([Top EXCEPT !.pc = "array_push"], cursor)
       ELSE Goto([Top EXCEPT !.pc = "array_close"], cursor)

\* the rest of the body: the push, then break, continue or panic
ArrayPush ==
    /\ Running("array_push")
    /\ LET children == Append(Top.items, ret)
           n == ArrayNext(source, cursor)
       IN  IF n.ok
           THEN Goto([Top EXCEPT !.items = children, !.pc = n.next], n.cursor)
           ELSE Fail(n)

\* after the loop: the closing bracket
ArrayClose ==
    /\ Running("array_close")
    /\ LET close == try_consume_ch(source, cursor, "]")
       IN  IF close.ok
           THEN Return(Array(Top.items), close.cursor)
           ELSE Fail(Panic("Expected close square bracket whilst parsing array",
                           close.cursor))

----------------------------------------------------------------------------
(* Documents: the JSON texts a caller writes.  A document is a tree; its   *)
(* text is Render(tree, style) and the value it denotes is Meaning(tree).  *)

DNull == [type |-> "Null"]
DBoolean(b) == [type |-> "Boolean", b |-> b]
DString(s) == [type |-> "String", s |-> s]
\* an integer: an optional "-" and decimal digits
DNumber(neg, digits) == [type |-> "Number", neg |-> neg, digits |-> digits]
DArray(items) == [type |-> "Array", items |-> items]
\* members: a sequence of [key, value], keys possibly repeated
DObject(members) == [type |-> "Object", members |-> members]
Member(key, value) == [key |-> key, value |-> value]

\* "compact": no whitespace.  "spaced": a space after each comma and colon.
\* "lines": a newline and a tab after each comma and colon.
\* "padded": a space on both sides of every token.
Styles == {"compact", "spaced", "lines", "padded"}

\* a structural token in a style
Token(t, style) ==
    IF style = "padded" THEN <<" ", t, " ">>
    ELSE IF style = "spaced" /\ (t = "," \/ t = ":") THEN <<t, " ">>
    ELSE IF style = "lines" /\ (t = "," \/ t = ":") THEN <<t, "\n", "\t">>
    ELSE <<t>>

RECURSIVE Render(_, _)
RECURSIVE RenderItems(_, _)
RECURSIVE RenderMembers(_, _)

RenderItems(items, style) ==
    IF items = <<>> THEN <<>>
    ELSE Render(Head(items), style)
         \o (IF Len(items) > 1 THEN Token(",", style) ELSE <<>>)
         \o RenderItems(Tail(items), style)

RenderMembers(members, style) ==
    IF members = <<>> THEN <<>>
    ELSE <<"\"">> \o Head(members).key \o <<"\"">> \o Token(":", style)
         \o Render(Head(members).value, style)
         \o (IF Len(members) > 1 THEN Token(",", style) ELSE <<>>)
         \o RenderMembers(Tail(members), style)

Render(d, style) ==
    IF d.type = "Null" THEN <<"n", "u", "l", "l">>
    ELSE IF d.type = "Boolean"
    THEN (IF d.b THEN <<"t", "r", "u", "e">> ELSE <<"f", "a", "l", "s", "e">>)
    ELSE IF d.type = "String" THEN <<"\"">> \o d.s \o <<"\"">>
    ELSE IF d.type = "Number" THEN (IF d.neg THEN <<"-">> ELSE <<>>) \o d.digits
    ELSE IF d.type = "Array"
    THEN Token("[", style) \o RenderItems(d.items, style) \o Token("]", style)
    ELSE Token("{", style) \o RenderMembers(d.members, style) \o Token("}", style)

RECURSIVE DecimalValue(_)
\* the integer a run of decimal digits denotes
DecimalValue(digits) ==
    IF digits = <<>> THEN 0
    ELSE 10 * DecimalValue(SubSeq(digits, 1, Len(digits) - 1))
         + DigitValue(digits[Len(digits)])

\* the f32 that holds the integer n exactly (n < 2^24)
F32Exact(n) == [m |-> n, e |-> 0, inf |-> FALSE]

RECURSIVE Meaning(_)
RECURSIVE MeaningOfItems(_)

MeaningOfItems(items) ==
    IF items = <<>> THEN <<>>
    ELSE <<Meaning(Head(items))>> \o MeaningOfItems(Tail(items))

\* the value the last member with key k has
LastValue(members, k) ==
    LET last == CHOOSE i \in 1..Len(members) :
                    /\ members[i].key = k
                    /\ \A j \in (i + 1)..Len(members) : members[j].key # k
    IN  members[last].value

Meaning(d) ==
    IF d.type = "Number" THEN Number(d.neg, F32Exact(DecimalValue(d.digits)))
    ELSE IF d.type = "Array" THEN Array(MeaningOfItems(d.items))
    ELSE IF d.type = "Object"
    THEN Object([k \in {d.members[i].key : i \in 1..Len(d.members)} |->
                    Meaning(LastValue(d.members, k))])
    ELSE d

----------------------------------------------------------------------------
(* The inputs *)

\* the most elements of an array and members of an object of a document
MaxItems == 2
\* the most pieces of a raw text
MaxPieces == 4
\* the most digits of an enumerated digit run
MaxDigits == 3

SeqsUpTo(S, n) == UNION {[1..k -> S] : k \in 0..n}

Leaves ==
    {DNull, DBoolean(TRUE), DBoolean(FALSE), DString(<<"a">>),
     DNumber(FALSE, <<"1">>), DNumber(TRUE, <<"1", "2">>)}

Elements ==
    Leaves \cup {DArray(<<>>), DObject(<<>>), DArray(<<DNumber(FALSE, <<"1">>)>>),
                 DObject(<<Member(<<"a">>, DNumber(FALSE, <<"1">>))>>)}

Keys == {<<"a">>, <<"b">>}

MemberValues ==
    {DNumber(FALSE, <<"1">>), DNumber(FALSE, <<"2">>), DString(<<"a">>), DObject(<<>>)}

Members == {Member(k, v) : k \in Keys, v \in MemberValues}

Documents ==
    Leaves
    \cup {DArray(items) : items \in SeqsUpTo(Elements, MaxItems)}
    \cup {DObject(members) : members \in SeqsUpTo(Members, MaxItems)}

\* the whitespace between a trailing comma and the closing bracket
Gaps == {<<>>, <<" ">>, <<"\n", "\t">>}

\* the text with a comma, and gap, put before its closing bracket
WithTrailingComma(text, gap) ==
    SubSeq(text, 1, Len(text) - 1) \o <<",">> \o gap \o <<text[Len(text)]>>

NonEmptyContainers ==
    {d \in Documents : \/ d.type = "Array" /\ d.items # <<>>
                       \/ d.type = "Object" /\ d.members # <<>>}

\* a character of three bytes, U+20AC
Euro == <<"xE2", "x82", "xAC">>

\* raw text is any run of these pieces
Pieces ==
    {<<"[">>, <<"]">>, <<"{">>, <<"}">>, <<",">>, <<":">>, <<" ">>,
     <<"\"", "a", "\"">>, <<"\"">>, <<"1">>, <<"n", "u", "l">>, <<"t">>,
     Euro}

RECURSIVE Flatten(_)
Flatten(pieces) ==
    IF pieces = <<>> THEN <<>> ELSE Head(pieces) \o Flatten(Tail(pieces))

RawTexts == {Flatten(ps) : ps \in SeqsUpTo(Pieces, MaxPieces)}

\* number texts: a sign, a digit run, and what follows it
Signs == {<<>>, <<"-">>, <<"+">>}

LongRuns ==
    {<<"1", "6", "7", "7", "7", "2", "1", "6">>,
     <<"1", "6", "7", "7", "7", "2", "1", "7">>,
     <<"1", "6", "7", "7", "7", "2", "1", "9">>,
     <<"9", "9", "9", "9", "9", "9", "9", "9">>,
     <<"1", "2", "3", "4", "5", "6", "7", "8", "9">>}

DigitRuns == SeqsUpTo({"0", "1", "2", "9"}, MaxDigits) \cup LongRuns

Tails == {<<>>, <<".", "5">>, <<"e", "3">>, <<"E", "2">>, <<" ", "2">>}

NumberTexts == {s \o r \o t : s \in Signs, r \in DigitRuns, t \in Tails}

\* the literal main() parses
MainText ==
    <<"[", "t", "r", "u", "e", ",", " ", "f", "a", "l", "s", "e", ",", " ",
      "\"", "h", "e", "l", "l", "o", "\"", ",", " ", "{", "}", ",", " ",
      "-", "1", "2", "]">>

Text == [kind |-> "text"]

\* JsonParser::new(input) for each input
Init ==
    /\ \/ /\ source \in RawTexts \cup NumberTexts \cup {MainText}
          /\ document = Text
       \/ \E d \in Documents, st \in Styles :
             /\ source = Render(d, st)
             /\ document = [kind |-> "document", tree |-> d, style |-> st]
       \/ \E d \in NonEmptyContainers, st \in {"compact", "spaced"}, g \in Gaps :
             /\ source = WithTrailingComma(Render(d, st), g)
             /\ document = [kind |-> "trailing comma", tree |-> d, style |-> st,
                            gap |-> g]
    /\ cursor = 0
    /\ stack = <<Frame("parse")>>
    /\ ret = NoValue
    /\ status = "running"
    /\ err = NoError

Next ==
    \/ Parse
    \/ ParseString
    \/ ParseBoolean
    \/ ParseNumber
    \/ ParseNull
    \/ ParseObject
    \/ ObjectLoop
    \/ ObjectInsert
    \/ ObjectClose
    \/ ParseArray
    \/ ArrayLoop
    \/ ArrayPush
    \/ ArrayClose

Spec == Init /\ [][Next]_vars

----------------------------------------------------------------------------
(* What the claims are stated with *)

Halted == status # "running"

IsDocument == document.kind = "document"

HasTrailingComma(type) ==
    document.kind = "trailing comma" /\ document.tree.type = type

\* the error kinds of the specification, by panic message
EndOfInput == "Unexpected end of JSON input"
UnexpectedToken == "Unexpected token"
ExpectedOpeningQuote == "Expected opening quote whilst parsing string"

\* C1: every well-formed document of the supported subset, whitespace around
\* its tokens or not, parses without failure to the value it denotes.
C1_WellFormedParses ==
    IsDocument =>
        /\ status # "failed"
        /\ status = "done" => ret = Meaning(document.tree)

\* C2: {} parses to an Object with no entries and [] to an Array with no
\* elements; neither fails.
C2_EmptyContainers ==
    /\ source = <<"{", "}">> /\ Halted => status = "done" /\ ret = Object(EmptyMap)
    /\ source = <<"[", "]">> /\ Halted => status = "done" /\ ret = Array(<<>>)

\* C3: when the top-level parse returns a value it has consumed the whole
\* source.
C3_ConsumesWholeSource == status = "done" => cursor = Len(source)

\* C4: an object text with repeated keys parses to an Object that holds each
\* key once, mapped to the value of the key's last occurrence.
C4_LastWriteWins ==
    IsDocument /\ document.tree.type = "Object" /\ status = "done" =>
        LET members == document.tree.members
        IN  /\ ret.type = "Object"
            /\ DOMAIN ret.entries = {members[i].key : i \in 1..Len(members)}
            /\ \A k \in DOMAIN ret.entries :
                   ret.entries[k] = Meaning(LastValue(members, k))

\* {"a": 1, "a": 2} has been parsed to the single entry "a" -> 2
C4_Witness ==
    /\ status = "done"
    /\ source = <<"{", "\"", "a", "\"", ":", " ", "1", ",", " ",
                  "\"", "a", "\"", ":", " ", "2", "}">>
    /\ ret = Object([k \in {<<"a">>} |-> Number(FALSE, F32Exact(2))])

RECURSIVE LastBlackByte(_, _)
\* the last byte before offset cur that is not whitespace (NUL if none)
LastBlackByte(src, cur) ==
    IF cur = 0 THEN NUL
    ELSE IF IsSpace(src[cur]) THEN LastBlackByte(src, cur - 1)
    ELSE src[cur]

\* C5: an array text whose last element is followed by a comma and then,
\* after whitespace or none, the closing ] never parses to an Array: the
\* texts written that way do not parse, and no array of any text is closed
\* by a ] that a comma precedes.
C5_TrailingCommaRejected ==
    /\ HasTrailingComma("Array") => status # "done"
    /\ Running("array_close") /\ current(source, cursor) = "]" =>
           LastBlackByte(source, cursor) # ","

\* [1, -12, ] has failed
C5_Witness ==
    /\ source = <<"[", "1", ",", " ", "-", "1", "2", ",", " ", "]">>
    /\ HasTrailingComma("Array")
    /\ status = "failed"

\* where the digit run that starts at offset from ends
DigitRunEnd(src, from) ==
    CHOOSE j \in from..Len(src) :
        /\ \A i \in (from + 1)..j : is_ascii_digit(src[i])
        /\ j = Len(src) \/ ~is_ascii_digit(src[j + 1])

\* what parse_number is claimed to do at the cursor, the run's value being
\* exact whenever Exact(value) holds
NumberAsClaimed(Exact(_)) ==
    Running("parse_number") =>
        LET c == current(source, cursor)
            from == IF c = "-" \/ c = "+" THEN cursor + 1 ELSE cursor
            to == DigitRunEnd(source, from)
            value == DecimalValue(SubSeq(source, from + 1, to))
        IN  /\ status' # "failed"
            /\ cursor' = to
            /\ ret'.type = "Number"
            /\ ret'.neg = (c = "-")
            /\ Exact(value) => ~ret'.f.inf /\ ret'.f.m * Pow2(ret'.f.e) = value

AnyValue(v) == TRUE
Below2To24(v) == v <= TwoTo24

\* C6 as stated: after an optional sign parse_number consumes the maximal
\* digit run and returns its decimal value, negated exactly after a "-".
C6_ExactDecimal == [][NumberAsClaimed(AnyValue)]_vars

\* C6, amended: the value is the decimal value of the run whenever that is
\* at most 2^24; the sign and the cursor are as stated for every run.
C6_DecimalUpTo2To24 == [][NumberAsClaimed(Below2To24)]_vars

\* -12.5 has been parsed to Number(-12), the cursor left at the "."
C6_Witness ==
    /\ source = <<"-", "1", "2", ".", "5">>
    /\ status = "done"
    /\ ret = Number(TRUE, F32Exact(12))
    /\ cursor = 3

\* nothing but whitespace is left at the cursor
RestIsBlank == \A i \in (cursor + 1)..Len(source) : IsSpace(source[i])

\* C7: parse, where only whitespace or nothing is left, fails with
\* EndOfInput.
C7_BlankIsEndOfInput ==
    [][Running("parse") /\ RestIsBlank =>
           status' = "failed" /\ err'.msg = EndOfInput]_vars

\* every primitive, run at the cursor, leaves it in range and no smaller
PrimitivesAdvance ==
    LET after ==
            {try_consume_ch(source, cursor, ch).cursor :
                 ch \in {"\"", "{", "}", "[", "]", ":", ",", "-", "+"}}
            \cup {try_consume(source, cursor, it).cursor :
                      it \in {<<"t", "r", "u", "e">>, <<"f", "a", "l", "s", "e">>,
                              <<"n", "u", "l", "l">>}}
            \cup {trim_left(source, cursor), lex_string(source, cursor).cursor,
                  parse_number(source, cursor).cursor,
                  parse_null(source, cursor).cursor,
                  parse_boolean(source, cursor).cursor}
    IN  \A c \in after : cursor <= c /\ c <= Len(source)

\* C8: the cursor stays within 0..length and no step of any routine, a
\* failing one included, moves it back.
C8_CursorMonotone ==
    /\ [](cursor \in 0..Len(source) /\ PrimitivesAdvance)
    /\ [][cursor' >= cursor]_vars

\* {"a":1 has failed at its end, the cursor having moved through the key,
\* the colon and the number
C8_Witness ==
    /\ source = <<"{", "\"", "a", "\"", ":", "1">>
    /\ status = "failed"
    /\ cursor = 6

\* C9: an object text with a comma between its last entry and the } is not
\* accepted: the parse fails lexing a key that starts with }.
C9_TrailingCommaFailsOnKey ==
    HasTrailingComma("Object") /\ Halted =>
        status = "failed" /\ err.msg = ExpectedOpeningQuote

\* a turn of the object or array loop back to its head consumed a byte
LoopProgress ==
    /\ Running("array_push") /\ status' = "running" /\ Head(stack').pc = "array_loop"
           => cursor' > cursor
    /\ Running("object_insert") /\ status' = "running"
       /\ Head(stack').pc = "object_loop" => cursor' > cursor

\* how far the routine at the head of the stack is from giving up the
\* byte under the cursor: a call of parse (array_loop) comes before parse,
\* parse before the routine it selects, that before the caller's next step
PcRank(pc) ==
    IF pc = "array_loop" THEN 6
    ELSE IF pc = "parse" THEN 5
    ELSE IF pc = "array_push" \/ pc = "object_insert" THEN 3
    ELSE IF pc = "object_loop" THEN 2
    ELSE IF pc = "object_close" \/ pc = "array_close" THEN 1
    ELSE 4

\* a natural number that bounds the steps left: the bytes left weigh more
\* than any rank
Measure ==
    IF Halted THEN 0 ELSE 1 + 7 * (Len(source) - cursor) + PcRank(Top.pc)

\* the routines and the places in them: each has one action, whose only
\* guard is Running(pc), so a state with one of them at the head has a step
Routines ==
    {"parse", "parse_string", "parse_boolean", "parse_number", "parse_null",
     "parse_object", "object_loop", "object_insert", "object_close",
     "parse_array", "array_loop", "array_push", "array_close"}

CanStep == stack # <<>> /\ Top.pc \in Routines

\* C10: every parse ends, returning or failing.  A running parse always has
\* a next step and every step lowers Measure, so no run is longer than
\* 7 * length + 7 steps; a turn of the object or array loop consumes a byte,
\* and so does every level of recursion, though parse_null may consume none.
C10_Terminates ==
    /\ [](Halted \/ CanStep)
    /\ [](Measure >= 0 /\ Len(stack) <= cursor + 1)
    /\ [][Measure' < Measure /\ LoopProgress]_vars

\* [[nul has ended: the inner parse returned Null without moving the
\* cursor and the inner array then failed
C10_Witness ==
    /\ source = <<"[", "[", "n", "u", "l">>
    /\ status = "failed"
    /\ ret = Null
    /\ cursor = 2
    /\ Len(stack) = 2

====
